---- MODULE Spec2Model ----
(***************************************************************************)
(* Model of scripts/concatenate_lib_classes.py: the script concatenates    *)
(* <root>/src/*.ts and then <root>/tests/*.ts into <root>/classes.txt.     *)
(* The filesystem is the state; every statement of the script is a step.   *)
(* Platform: CPython on POSIX (os.linesep = "\n", case-sensitive names).   *)
(***************************************************************************)
EXTENDS Naturals, Sequences, FiniteSets, TLC

\* ---------------------------------------------------------------- bounds
\* At most MaxFiles directory entries exist under src/ and tests/ together.
MaxFiles == 2
\* ------------------------------------------------------- characters, text
\* A text is a sequence of characters: "CR" is '\r', "LF" is '\n', "x" is
\* any other character of a file, "o" a character of a previous classes.txt.

\* The contents a file of src/ or tests/ may have: empty, without a line
\* end, and with each of the three line ends.
Texts == {<<>>, <<"x">>, <<"x", "LF">>, <<"CR">>, <<"CR", "LF">>}

\* ------------------------------------------------------------ the script
\* Lines 5-7: the three paths, relative to script_dir.
source_folder == "src"
test_folder == "tests"
output_file == [dir |-> ".", name |-> <<"c", "l", "a", "s", "s", "e", "s", ".", "t", "x", "t">>]

\* The pattern of lines 10 and 16, as a sequence of characters.
pattern == <<"*", ".", "t", "s">>

\* fnmatch of a name against a pattern that is "*" followed by literal
\* characters: the name ends with the literal characters.
fnmatch(name, pat) ==
    LET lit == Tail(pat)
    IN  /\ Head(pat) = "*"
        /\ Len(name) >= Len(lit)
        /\ SubSeq(name, Len(name) - Len(lit) + 1, Len(name)) = lit

\* glob skips the names that start with a dot unless the pattern does.
ishidden(name) == name # <<>> /\ Head(name) = "."

\* The names a directory entry may have.
Names == { <<"a", ".", "t", "s">>, <<"b", ".", "t", "s">>,
           <<".", "t", "s">>, <<"l", "i", "b">> }

\* What an entry with a matched name may be: a readable text file, a file
\* whose open is refused ("locked"), a file whose bytes do not decode
\* ("garbled").  Any other entry is a file or a directory.
Payloads(name) ==
    IF fnmatch(name, pattern) /\ ~ishidden(name)
    THEN [kind : {"file"}, text : Texts]
         \cup {[kind |-> "locked", text |-> <<>>], [kind |-> "garbled", text |-> <<"x">>]}
    ELSE {[kind |-> "file", text |-> <<"x">>], [kind |-> "dir", text |-> <<>>]}

Entries == UNION {{[name |-> n, kind |-> p.kind, text |-> p.text] : p \in Payloads(n)} : n \in Names}

\* A directory holds entries with distinct names, listed in the order the
\* operating system enumerates them.
Listings(k) ==
    UNION {{l \in [1..n -> Entries] : \A i, j \in 1..n : l[i].name = l[j].name => i = j}
           : n \in 0..k}

\* Every directory of the model has one nested file, c.ts.
nested == [name |-> <<"c", ".", "t", "s">>, kind |-> "file", text |-> <<"x">>]

\* A directory of the root: absent, or present with its listing.
Missing == [exists |-> FALSE, list |-> <<>>]
Dir(l) == [exists |-> TRUE, list |-> l]

\* classes.txt on disk: absent, or present with its text.
Absent == [exists |-> FALSE, text |-> <<>>]
File(t) == [exists |-> TRUE, text |-> t]

\* What classes.txt may hold before a run.
Priors == {Absent, File(<<>>), File(<<"o", "LF">>)}

VARIABLES
    tree,       \* [src, tests]: the two directories of the root
    classes,    \* classes.txt on disk
    writable,   \* whether the process may create and write classes.txt
    phase,      \* "src" (lines 9-13) or "tests" (lines 15-19)
    pc,         \* the statement about to run
    handles,    \* the open file handles: [path, mode]
    buf,        \* text written to outfile and not yet on disk
    matches,    \* the list glob.glob returned for the running loop
    idx,        \* the position of the loop in matches
    err,        \* the exception in flight, or "none"
    opened,     \* every open() of the run so far: [path, mode]
    prior,      \* classes.txt when the run started
    run,        \* 1 for the first run, 2 for the second
    first       \* classes.txt after the first run

vars == <<tree, classes, writable, phase, pc, handles, buf, matches, idx, err,
          opened, prior, run, first>>

\* The filesystem the script reads, and the run counters.
env == <<tree, writable, prior, run, first>>

Init ==
    /\ \E s \in {Missing} \cup {Dir(l) : l \in Listings(MaxFiles)} :
         \E t \in {Missing} \cup {Dir(l) : l \in Listings(MaxFiles - Len(s.list))} :
            tree = [src |-> s, tests |-> t]
    /\ classes \in Priors
    /\ writable \in BOOLEAN
    /\ prior = classes
    /\ phase = "src"
    /\ pc = "open"
    /\ handles = {}
    /\ buf = <<>>
    /\ matches = <<>>
    /\ idx = 1
    /\ err = "none"
    /\ opened = <<>>
    /\ run = 1
    /\ first = Absent

\* ------------------------------------------------------ library behaviour
\* A bug: the pattern '**/*.ts' with recursive=True, which also matches the
\* files of the subdirectories.
glob_recursive(folder) ==
    LET d == tree[folder]
        keep(e) == (fnmatch(e.name, pattern) \/ e.kind = "dir") /\ ~ishidden(e.name)
        sel == SelectSeq(d.list, keep)
        path(e) == IF e.kind = "dir" THEN e.name \o <<"/">> \o nested.name ELSE e.name
    IN  IF d.exists THEN [i \in 1..Len(sel) |-> [dir |-> folder, name |-> path(sel[i])]]
        ELSE <<>>

\* glob.glob(os.path.join(folder, '*.ts')): the entries of the directory, in
\* listing order, whose name matches and is not hidden; no entry below a
\* subdirectory; the empty list when the directory does not exist.
glob(folder) ==
    LET d == tree[folder]
        keep(e) == fnmatch(e.name, pattern) /\ ~ishidden(e.name)
        sel == SelectSeq(d.list, keep)
    IN  IF d.exists THEN [i \in 1..Len(sel) |-> [dir |-> folder, name |-> sel[i].name]]
        ELSE <<>>

\* A bug: a directory that does not exist is an error (as os.listdir has it).
glob_raises_missing(folder) == ~tree[folder].exists

\* A bug: a pattern that matches nothing is an error (as a shell has it).
glob_raises_nomatch(folder) == tree[folder].exists /\ glob(folder) = <<>>

\* Whether glob.glob raises: never, it swallows the OSError of a directory
\* it cannot list.
glob_raises(folder) == FALSE

\* The file a path below src/ or tests/ names: a direct entry, or the file
\* nested in a subdirectory.
entry(path) ==
    LET l == tree[path.dir].list
        direct == {i \in 1..Len(l) : l[i].name = path.name}
    IN  IF direct # {} THEN l[CHOOSE i \in direct : TRUE] ELSE nested

RECURSIVE universal_newlines(_)
\* Text mode on input (newline=None): "\r\n" and a lone "\r" become "\n".
universal_newlines(t) ==
    IF t = <<>> THEN <<>>
    ELSE IF Head(t) = "CR"
         THEN IF Len(t) >= 2 /\ t[2] = "LF"
              THEN <<"LF">> \o universal_newlines(Tail(Tail(t)))
              ELSE <<"LF">> \o universal_newlines(Tail(t))
         ELSE <<Head(t)>> \o universal_newlines(Tail(t))

\* os.linesep of the platform.
linesep == <<"LF">>

RECURSIVE translate_out(_)
\* Text mode on output (newline=None): every "\n" becomes os.linesep.
translate_out(t) ==
    IF t = <<>> THEN <<>>
    ELSE (IF Head(t) = "LF" THEN linesep ELSE <<Head(t)>>) \o translate_out(Tail(t))

\* infile.read() of a readable file.
read(path) == universal_newlines(entry(path).text)

\* A bug: both phases open with 'a'.
mode_always_append(ph) == "a"

\* A bug: both phases open with 'w'.
mode_always_write(ph) == "w"

\* The mode of the open() of each phase: line 9 and line 15.
mode(ph) == IF ph = "src" THEN "w" ELSE "a"

\* A bug: the input files are opened for update.
input_mode_update == "r+"

\* The mode of the open() of the input files: lines 11 and 17.
input_mode == "r"

\* A bug: no separator is written after a file.
separator_none == <<>>

\* The text of lines 13 and 19.
separator == <<"LF">>

\* The folder each phase globs: line 10 and line 16.
folder(ph) == IF ph = "src" THEN source_folder ELSE test_folder

\* A bug: the file is created when absent but never truncated.
open_output_keep(m, f) == File(f.text)

\* A bug: infile is not closed (no with block).
close_infile_leak(hs) == hs

\* The exit of the inner with block closes infile.
close_infile(hs) == {h \in hs : h.mode # input_mode}

\* A bug: the loop body catches the exception and goes on.
propagates_never(e) == FALSE

\* An exception in flight leaves every block it is raised in: the script
\* has no try statement.
propagates(e) == e # "none"

\* open(output_file, m) on an existing or absent file: 'w' creates or
\* truncates, 'a' creates or keeps.
open_output(m, f) == IF m = "w" THEN File(<<>>) ELSE File(f.text)

\* ------------------------------------------------------------- the steps
\* Lines 9 and 15: with open(output_file, mode) as outfile.
OpenOutfile ==
    /\ pc = "open"
    /\ IF writable
       THEN /\ classes' = open_output(mode(phase), classes)
            /\ handles' = handles \cup {[path |-> output_file, mode |-> mode(phase)]}
            /\ pc' = "glob"
            /\ err' = err
       ELSE /\ pc' = "failed"
            /\ err' = "open_output"
            /\ UNCHANGED <<classes, handles>>
    /\ opened' = Append(opened, [path |-> output_file, mode |-> mode(phase)])
    /\ UNCHANGED <<env, phase, buf, matches, idx>>

\* Lines 10 and 16: glob.glob(...) is evaluated once, before the loop.
Glob ==
    /\ pc = "glob"
    /\ IF glob_raises(folder(phase))
       THEN /\ err' = "glob"
            /\ pc' = "exit_out"
            /\ UNCHANGED matches
       ELSE /\ matches' = glob(folder(phase))
            /\ pc' = "for"
            /\ UNCHANGED err
    /\ idx' = 1
    /\ UNCHANGED <<env, classes, phase, handles, buf, opened>>

\* Lines 10-11 and 16-17: the next filepath, and open(filepath, 'r').
\* open() raises for a file it may not read; an exhausted list ends the loop.
OpenInfile ==
    /\ pc = "for"
    /\ IF idx > Len(matches)
       THEN /\ pc' = "exit_out"
            /\ UNCHANGED <<handles, err, opened>>
       ELSE /\ opened' = Append(opened, [path |-> matches[idx], mode |-> input_mode])
            /\ IF entry(matches[idx]).kind = "locked"
               THEN /\ err' = "open_input"
                    /\ pc' = "exit_out"
                    /\ UNCHANGED handles
               ELSE /\ handles' = handles \cup {[path |-> matches[idx], mode |-> input_mode]}
                    /\ pc' = "write"
                    /\ UNCHANGED err
    /\ UNCHANGED <<env, classes, phase, buf, matches, idx>>

\* outfile.write(t): the text joins the buffer; the buffer may be written
\* out at once, and writing out fails (disk full) after any part of it.
\* next is the statement that follows a write that raised nothing.
write(t, next) ==
    LET b == buf \o translate_out(t)
    IN  \/ /\ buf' = b
           /\ pc' = next
           /\ UNCHANGED <<classes, err>>
        \/ \E j \in 0..Len(b) :
              /\ classes' = File(classes.text \o SubSeq(b, 1, j))
              /\ buf' = SubSeq(b, j + 1, Len(b))
              /\ IF j = Len(b)
                 THEN pc' = next /\ UNCHANGED err
                 ELSE pc' = "exit_in" /\ err' = "write_output"

\* Lines 12 and 18: outfile.write(infile.read()).  read() raises for bytes
\* that do not decode.
WriteContent ==
    /\ pc = "write"
    /\ IF entry(matches[idx]).kind = "garbled"
       THEN /\ err' = "read_input"
            /\ pc' = "exit_in"
            /\ UNCHANGED <<classes, buf>>
       ELSE write(read(matches[idx]), "write_nl")
    /\ UNCHANGED <<env, phase, handles, matches, idx, opened>>

\* Lines 13 and 19: outfile.write('\n').
WriteNewline ==
    /\ pc = "write_nl"
    /\ write(separator, "exit_in")
    /\ UNCHANGED <<env, phase, handles, matches, idx, opened>>

\* The end of the inner with block, reached normally or by an exception:
\* infile is closed.
ExitInfile ==
    /\ pc = "exit_in"
    /\ handles' = close_infile(handles)
    /\ IF propagates(err)
       THEN idx' = idx /\ pc' = "exit_out"
       ELSE idx' = idx + 1 /\ pc' = "for"
    /\ UNCHANGED <<env, classes, phase, buf, matches, err, opened>>

\* The end of the outer with block, reached normally or by an exception:
\* outfile.close() writes the buffer out and closes the file.  Writing out
\* may fail after any part; once the disk is full nothing more is written.
\* An exception raised by close() replaces the one in flight.
ExitOutfile ==
    /\ pc = "exit_out"
    /\ handles' = {h \in handles : h.path # output_file}
    /\ \E j \in 0..Len(buf) :
          /\ err = "write_output" => j = 0
          /\ classes' = File(classes.text \o SubSeq(buf, 1, j))
          /\ err' = IF j < Len(buf) THEN "write_output" ELSE err
    /\ buf' = <<>>
    /\ pc' = IF propagates(err') THEN "failed"
             ELSE IF phase = "src" THEN "open" ELSE "done"
    /\ phase' = IF ~propagates(err') /\ phase = "src" THEN "tests" ELSE phase
    /\ UNCHANGED <<env, matches, idx, opened>>

\* The script is run a second time, the directories unchanged.
Rerun ==
    /\ pc = "done"
    /\ run = 1
    /\ run' = 2
    /\ first' = classes
    /\ prior' = classes
    /\ phase' = "src"
    /\ pc' = "open"
    /\ matches' = <<>>
    /\ idx' = 1
    /\ opened' = <<>>
    /\ UNCHANGED <<tree, writable, classes, handles, buf, err>>

Next ==
    \/ OpenOutfile
    \/ Glob
    \/ OpenInfile
    \/ WriteContent
    \/ WriteNewline
    \/ ExitInfile
    \/ ExitOutfile
    \/ Rerun

Spec == Init /\ [][Next]_vars

\* ============================================================ properties
\* The vocabulary of the properties, stated on the filesystem alone.

RECURSIVE Concat(_)
\* The concatenation of a sequence of texts.
Concat(ts) == IF ts = <<>> THEN <<>> ELSE Head(ts) \o Concat(Tail(ts))

IsPrefix(s, t) == Len(s) <= Len(t) /\ SubSeq(t, 1, Len(s)) = s

\* A name that ends in ".ts" and does not start with a dot.
IsTsName(name) ==
    /\ Len(name) >= 3
    /\ name[Len(name) - 2] = "." /\ name[Len(name) - 1] = "t" /\ name[Len(name)] = "s"
    /\ name[1] # "."

\* The entries of a directory that src/*.ts (tests/*.ts) matches, in
\* enumeration order; none when the directory does not exist.
Matched(d) ==
    LET ts(e) == IsTsName(e.name)
    IN  SelectSeq(tree[d].list, ts)

\* The matched entries in processing order: src/ first, then tests/.
Order == Matched("src") \o Matched("tests")

PathOf(d, es) == [i \in 1..Len(es) |-> [dir |-> d, name |-> es[i].name]]

OrderPaths == PathOf("src", Matched("src")) \o PathOf("tests", Matched("tests"))

\* The content of a file as stored, followed by one newline.
RawBlock(e) == e.text \o <<"LF">>

\* The content of a file as text mode reads it (CR LF and a lone CR are
\* one LF), followed by one newline.
TextBlock(e) == universal_newlines(e.text) \o <<"LF">>

RawBlocks(es) == Concat([i \in 1..Len(es) |-> RawBlock(es[i])])

TextBlocks(es) == Concat([i \in 1..Len(es) |-> TextBlock(es[i])])

\* The open() calls of the run on files other than classes.txt.
InputOpens == LET input(o) == o.path # output_file IN SelectSeq(opened, input)

InputPaths == [i \in 1..Len(InputOpens) |-> InputOpens[i].path]

Finished == pc \in {"done", "failed"}

\* ---------------------------------------------------------------- C1
\* C1 (as claimed): when src/ and tests/ exist and a run completes,
\* classes.txt is exactly the stored content of every matched src/ file, each
\* followed by one newline, then the same for every matched tests/ file, in
\* enumeration order, and nothing else.
C1_RawConcatenation ==
    (pc = "done" /\ tree.src.exists /\ tree.tests.exists)
        => classes = File(RawBlocks(Order))

\* C1 (amended): the same with the content of each file as text mode reads
\* it: every CR LF and every lone CR of a file is one LF in classes.txt.
C1_TextConcatenation ==
    (pc = "done" /\ tree.src.exists /\ tree.tests.exists)
        => classes = File(TextBlocks(Order))

\* A completed run over a previous classes.txt with a match in src/ and a
\* match in tests/.
C1_Witness ==
    /\ pc = "done" /\ tree.src.exists /\ tree.tests.exists
    /\ Matched("src") # <<>> /\ Matched("tests") # <<>>
    /\ prior.text # <<>>
    /\ classes.text # <<>>

\* ---------------------------------------------------------------- C2
\* C2 (as claimed): a run never completes when src/ or tests/ does not
\* exist: the missing directory makes it fail.
C2_MissingDirectoryFails ==
    pc = "done" => (tree.src.exists /\ tree.tests.exists)

\* C2 (amended): a directory that does not exist is enumerated as having no
\* match and raises nothing: the loop over it starts with an empty list and
\* no exception, and a run that completes holds the blocks of the other
\* directory alone.
C2_MissingDirectoryIsEmpty ==
    /\ (~tree[folder(phase)].exists /\ pc \in {"for", "exit_out"})
          => (matches = <<>> /\ err = "none")
    /\ (pc = "done" /\ ~tree.src.exists) => classes = File(TextBlocks(Matched("tests")))
    /\ (pc = "done" /\ ~tree.tests.exists) => classes = File(TextBlocks(Matched("src")))

\* A run completed although one of the directories does not exist, with
\* the files of the other in classes.txt.
C2_Witness ==
    /\ pc = "done"
    /\ ~(tree.src.exists /\ tree.tests.exists)
    /\ classes.text # <<>>

\* ---------------------------------------------------------------- C3
\* C3 (as claimed): when src/ does not exist the run fails and classes.txt
\* is as it was before the run: absent, or with its previous content.
C3_MissingSrcLeavesOutput ==
    (Finished /\ ~tree.src.exists) => (pc = "failed" /\ classes = prior)

\* C3 (amended): when src/ does not exist and classes.txt may be written,
\* classes.txt is created or truncated before src/ is enumerated and nothing
\* fails for the missing directory: from then on classes.txt exists and holds
\* nothing but text of the tests/ blocks, all of them after a run that
\* completes.  It is as before the run only when it could not be opened.
C3_MissingSrcTruncates ==
    ~tree.src.exists =>
        /\ (writable /\ ~(pc = "open" /\ phase = "src"))
              => (classes.exists /\ IsPrefix(classes.text, TextBlocks(Matched("tests"))))
        /\ (writable /\ phase = "src" /\ pc \in {"glob", "for", "exit_out"})
              => (classes = File(<<>>) /\ err = "none")
        /\ pc = "done" => classes = File(TextBlocks(Matched("tests")))
        /\ (Finished /\ ~writable) => (classes = prior /\ err = "open_output")

\* A run ended with src/ missing and the previous content of classes.txt
\* gone.
C3_Witness ==
    /\ Finished /\ ~tree.src.exists
    /\ prior.text # <<>>
    /\ classes # prior

\* ---------------------------------------------------------------- C4
\* C4: a second run over unchanged directories leaves classes.txt
\* identical to what the first run left.
C4_Idempotent ==
    (run = 2 /\ pc = "done") => classes = first

\* The second run completed with a result that is not empty.
C4_Witness ==
    /\ run = 2 /\ pc = "done"
    /\ classes.text # <<>>
    /\ Len(Order) >= 1

\* ---------------------------------------------------------------- C5
\* C5: an exception is never caught: once one is in flight only the with
\* blocks are left.  After a failure that follows the first open of
\* classes.txt, the files opened are a prefix of the enumeration that ends
\* with the file being processed (none of tests/ when src/ failed), each
\* opened once, and classes.txt holds a part of the blocks of the files read
\* before the failure that is not the whole result.
C5_FailsAtOnce ==
    /\ err # "none" => pc \in {"exit_in", "exit_out", "failed"}
    /\ (pc = "failed" /\ err # "open_output") =>
          LET readOk == SelectSeq(InputOpens, LAMBDA o : entry(o.path).kind = "file")
              good == [i \in 1..Len(readOk) |-> entry(readOk[i].path)]
          IN  /\ IsPrefix(InputPaths, OrderPaths)
              /\ phase = "src" => \A i \in 1..Len(InputPaths) : InputPaths[i].dir = "src"
              /\ err \in {"open_input", "read_input"} =>
                    /\ InputPaths # <<>>
                    /\ entry(InputPaths[Len(InputPaths)]).kind # "file"
                    /\ Len(readOk) = Len(InputPaths) - 1
              /\ classes.exists
              /\ IsPrefix(classes.text, TextBlocks(good))
              /\ classes.text # TextBlocks(good) \/ Len(good) < Len(Order)

\* A run failed on a file of src/ while tests/ has a match.
C5_Witness ==
    /\ pc = "failed" /\ phase = "src"
    /\ err \in {"open_input", "read_input", "write_output"}
    /\ InputPaths # <<>>
    /\ Matched("tests") # <<>>

\* ---------------------------------------------------------------- C6
\* C6: no step changes src/ or tests/; the only file opened in a mode that
\* creates, truncates or writes is classes.txt, and every other file opened
\* is a file of src/ or tests/ opened with 'r'.
C6_Frame ==
    [][/\ tree' = tree
       /\ \A i \in 1..Len(opened') :
             IF opened'[i].path = output_file
             THEN opened'[i].mode \in {"w", "a"}
             ELSE opened'[i].mode = "r" /\ opened'[i].path.dir \in {"src", "tests"}]_vars

\* A run ended after it opened an input file and classes.txt.
C6_Witness ==
    /\ Finished
    /\ InputPaths # <<>>
    /\ \E i \in 1..Len(opened) : opened[i].path = output_file
    /\ classes # prior

\* ---------------------------------------------------------------- C7
\* C7: at most one input handle and at most one output handle are open; an
\* input file is opened only when no input file is open; the 'a' handle is
\* opened only when no output handle is open; no handle is open when the run
\* has ended.
C7_ScopedHandles ==
    /\ Cardinality({h \in handles : h.path # output_file}) <= 1
    /\ Cardinality({h \in handles : h.path = output_file}) <= 1
    /\ pc = "for" => \A h \in handles : h.path = output_file
    /\ pc = "open" => handles = {}
    /\ Finished => handles = {}

\* A run failed while its second input file was open.
C7_Witness ==
    /\ pc = "failed"
    /\ err \in {"read_input", "write_output"}
    /\ Len(InputPaths) >= 2
    /\ entry(InputPaths[Len(InputPaths)]).kind # "locked"

\* ---------------------------------------------------------------- C8
\* C8: every file glob returns and every file the run opens for reading
\* is a direct entry of src/ or tests/ whose name ends in ".ts": never a file
\* of a subdirectory, a file with another name, or classes.txt.
C8_OnlyDirectTsEntries ==
    LET direct(p) ==
            /\ p.dir \in {"src", "tests"}
            /\ \E i \in 1..Len(tree[p.dir].list) : tree[p.dir].list[i].name = p.name
            /\ IsTsName(p.name)
    IN  /\ \A i \in 1..Len(matches) : direct(matches[i])
        /\ \A i \in 1..Len(InputPaths) : direct(InputPaths[i])
        /\ pc = "done" => classes.text = TextBlocks(Order)

\* A run completed in a tree with a subdirectory and with a matched file.
C8_Witness ==
    /\ pc = "done"
    /\ \E d \in {"src", "tests"} :
          /\ \E i \in 1..Len(tree[d].list) : tree[d].list[i].kind = "dir"
          /\ Matched(d) # <<>>

\* ---------------------------------------------------------------- C9
\* C9 (as claimed): when src/ exists and has no match, classes.txt after a
\* completed run begins with the stored content of the first matched tests/
\* file; when neither directory has a match it exists and is empty.
C9_BeginsWithRawTest ==
    (pc = "done" /\ tree.src.exists /\ Matched("src") = <<>>) =>
        IF Matched("tests") # <<>>
        THEN IsPrefix(Matched("tests")[1].text, classes.text)
        ELSE classes = File(<<>>)

\* C9 (amended): a directory without a match raises nothing; when src/ exists
\* and has no match, classes.txt after a completed run begins with the
\* content of the first matched tests/ file as text mode reads it (it is the
\* tests/ blocks alone); when neither directory has a match the run cannot
\* fail once classes.txt is open, and classes.txt exists and is empty.
C9_EmptyDirectory ==
    /\ (tree[folder(phase)].exists /\ Matched(folder(phase)) = <<>> /\ pc \in {"for", "exit_out"})
          => (matches = <<>> /\ err = "none")
    /\ (pc = "done" /\ tree.src.exists /\ Matched("src") = <<>>)
          => /\ classes = File(TextBlocks(Matched("tests")))
             /\ Matched("tests") # <<>>
                   => IsPrefix(universal_newlines(Matched("tests")[1].text), classes.text)
    /\ (Order = <<>> /\ writable) => pc # "failed"
    /\ (Order = <<>> /\ pc = "done") => classes = File(<<>>)

\* A run completed with src/ present and without a match, and a match in
\* tests/.
C9_Witness ==
    /\ pc = "done"
    /\ tree.src.exists /\ Matched("src") = <<>>
    /\ Matched("tests") # <<>>
    /\ prior.text # <<>>

\* ---------------------------------------------------------------- C10
\* C10 (as claimed): whenever classes.txt is closed between the phases, after
\* a completed run or after a failed open or read of an input file, it holds
\* the stored content plus a newline of the files processed so far, whole.
C10_RawBlockPrefix ==
    (\/ pc = "open" /\ phase = "tests"
     \/ pc = "done"
     \/ pc = "failed" /\ err \in {"open_input", "read_input"})
        => \E k \in 0..Len(Order) :
              classes = File(RawBlocks(SubSeq(Order, 1, k)))

\* C10 (amended): in those states classes.txt is exactly the blocks of the
\* files processed before, whole and in processing order, a block being the
\* content of the file as text mode reads it plus a newline: all of src/
\* between the phases, every src/ block when a tests/ file fails.
C10_TextBlockPrefix ==
    (\/ pc = "open" /\ phase = "tests"
     \/ pc = "done"
     \/ pc = "failed" /\ err \in {"open_input", "read_input"})
        => LET k == IF err = "none" THEN Len(InputPaths) ELSE Len(InputPaths) - 1
           IN  /\ k \in 0..Len(Order)
               /\ classes = File(TextBlocks(SubSeq(Order, 1, k)))
               /\ phase = "tests" => k >= Len(Matched("src"))

\* A run failed on a tests/ file after a src/ file was written.
C10_Witness ==
    /\ pc = "failed" /\ phase = "tests"
    /\ err \in {"open_input", "read_input"}
    /\ Matched("src") # <<>>
    /\ classes.text # <<>>
====
